---- MODULE Spec2Model ----
(***************************************************************************)
(* A model of lib/core/Expressions.ts: the operator classes                *)
(* (SimpleOperator, OverloadedOperator), the term hierarchy (Literal and   *)
(* its subclasses) and the operations on them (apply, coerceEBV, toRDF).   *)
(***************************************************************************)
EXTENDS Integers, Sequences, FiniteSets, TLC

VARIABLES
    op,     \* the operator object under evaluation (NoObject before any exists)
    args,   \* the evaluated argument terms in hand (ITermExpression[])
    term,   \* the literal under inspection (NoObject before any exists)
    last    \* the outcome of the last constructor or method call

vars == <<op, args, term, last>>

(***************************************************************************)
(* JavaScript values.  Every value is a record of the same shape so that   *)
(* the untyped pieces of the code (a.category || a.termType, !!typedValue, *)
(* strValue || typedValue.toString()) can be computed as JavaScript does.  *)
(***************************************************************************)
JSUndefined == [t |-> "undefined", n |-> 0, s |-> "", b |-> FALSE]
JSNumber(n) == [t |-> "number", n |-> n, s |-> "", b |-> FALSE]
JSNaN == [t |-> "number", n |-> 0, s |-> "NaN", b |-> FALSE]
JSString(s) == [t |-> "string", n |-> 0, s |-> s, b |-> FALSE]
JSBoolean(b) == [t |-> "boolean", n |-> 0, s |-> "", b |-> b]
\* an object with one string-valued property: a NamedNode (its .value) or a
\* Date (its rendering)
JSObject(s) == [t |-> "object", n |-> 0, s |-> s, b |-> FALSE]

\* ToBoolean, as used by !! and ||
ToBoolean(v) ==
    CASE v.t = "undefined" -> FALSE
      [] v.t = "number" -> v.s # "NaN" /\ v.n # 0
      [] v.t = "string" -> v.s # ""
      [] v.t = "boolean" -> v.b
      [] OTHER -> TRUE

\* a || b
JSOr(a, b) == IF ToBoolean(a) THEN a ELSE b

\* the outcome of a call: a returned value or a thrown error
\* (calls: how many times an operator computation was invoked on the way)
Return(v) == [err |-> "none", msg |-> "", ret |-> v, calls |-> 0]
Throw(e, m) == [err |-> e, msg |-> m, ret |-> JSUndefined, calls |-> 0]

\* reading a property of undefined, calling a method on undefined
UndefinedDeref == Throw("TypeError", "Cannot read property of undefined")

\* v.toString()
toString(v) ==
    CASE v.t = "undefined" -> UndefinedDeref
      [] v.t = "number" -> Return(JSString(IF v.s = "NaN" THEN "NaN" ELSE ToString(v.n)))
      [] v.t = "boolean" -> Return(JSString(IF v.b THEN "true" ELSE "false"))
      [] OTHER -> Return(JSString(v.s))

NoObject == [expressionType |-> "none"]

(***************************************************************************)
(* Datatypes and their categories                                          *)
(***************************************************************************)
XSD_INTEGER == "xsd:integer"
XSD_STRING == "xsd:string"
XSD_BOOLEAN == "xsd:boolean"
XSD_DATE_TIME == "xsd:dateTime"
RDF_LANG_STRING == "rdf:langString"

\* C.categorize (lib/util/Consts): total, unrecognised datatypes map to 'other'
categorize(dataType) ==
    CASE dataType = XSD_INTEGER -> "integer"
      [] dataType = XSD_STRING -> "string"
      [] dataType = XSD_BOOLEAN -> "boolean"
      [] dataType = XSD_DATE_TIME -> "date"
      [] dataType = RDF_LANG_STRING -> "plain"
      [] OTHER -> "other"

(***************************************************************************)
(* Terms                                                                   *)
(***************************************************************************)
LiteralClasses ==
    {"Literal", "NumericLiteral", "BooleanLiteral", "DateTimeLiteral",
     "PlainLiteral", "StringLiteral", "NonLexicalLiteral"}

\* new <class>(typedValue, strValue, dataType, language) for the classes that
\* inherit Literal's constructor
Literal(class, typedValue, strValue, dataType, language) ==
    IF dataType.t = "undefined"
    THEN UndefinedDeref      \* dataType.value
    ELSE Return([expressionType |-> "term",
                 termType |-> "literal",
                 class |-> class,
                 category |-> JSString(categorize(dataType.s)),
                 typedValue |-> typedValue,
                 strValue |-> strValue,
                 dataType |-> dataType,
                 language |-> language])

\* NonLexicalLiteral's constructor without its  this.typedValue = undefined
NonLexicalLiteral_keepsTypedValue(typedValue, strValue, dataType, language) ==
    LET super == Literal("NonLexicalLiteral", typedValue, strValue, dataType, language)
    IN  IF super.err # "none"
        THEN super
        ELSE Return([super.ret EXCEPT !.category = JSString("untyped")])

\* new NonLexicalLiteral(typedValue, strValue, dataType, language)
NonLexicalLiteral(typedValue, strValue, dataType, language) ==
    LET super == Literal("NonLexicalLiteral", typedValue, strValue, dataType, language)
    IN  IF super.err # "none"
        THEN super
        ELSE Return([super.ret EXCEPT !.typedValue = JSUndefined,
                                      !.category = JSString("untyped")])

\* new C(...) for any literal class C
NewLiteral(class, typedValue, strValue, dataType, language) ==
    IF class = "NonLexicalLiteral"
    THEN NonLexicalLiteral(typedValue, strValue, dataType, language)
    ELSE Literal(class, typedValue, strValue, dataType, language)

\* Term.coerceEBV, inherited by Literal, DateTimeLiteral and NonLexicalLiteral
Term_coerceEBV(t) == Throw("TypeError", "Cannot coerce this term to EBV.")

\* NumericLiteral.coerceEBV written as  this.typedValue !== 0
NumericLiteral_coerceEBV_notZero(t) ==
    Return(JSBoolean(~(t.typedValue.s # "NaN" /\ t.typedValue.n = 0)))

NumericLiteral_coerceEBV(t) == Return(JSBoolean(ToBoolean(t.typedValue)))

BooleanLiteral_coerceEBV(t) == Return(JSBoolean(ToBoolean(t.typedValue)))

PlainLiteral_coerceEBV(t) ==
    IF t.strValue.t = "undefined"
    THEN UndefinedDeref      \* this.strValue.length
    ELSE Return(JSBoolean(Len(t.strValue.s) # 0))

StringLiteral_coerceEBV(t) ==
    IF t.strValue.t = "undefined"
    THEN UndefinedDeref      \* this.strValue.length
    ELSE Return(JSBoolean(Len(t.strValue.s) # 0))

\* t.coerceEBV(): the method of t's class
coerceEBV(t) ==
    CASE t.class = "NumericLiteral" -> NumericLiteral_coerceEBV(t)
      [] t.class = "BooleanLiteral" -> BooleanLiteral_coerceEBV(t)
      [] t.class = "PlainLiteral" -> PlainLiteral_coerceEBV(t)
      [] t.class = "StringLiteral" -> StringLiteral_coerceEBV(t)
      [] OTHER -> Term_coerceEBV(t)

\* RDFDM.literal(value, languageOrDatatype) of rdf-data-model: a string second
\* argument is a language tag (the datatype is then rdf:langString), a
\* NamedNode is the datatype, and without one the datatype is xsd:string
RDFDM_literal(value, languageOrDatatype) ==
    [termType |-> "Literal",
     value |-> value.s,
     language |-> IF languageOrDatatype.t = "string" THEN languageOrDatatype.s ELSE "",
     datatype |-> CASE languageOrDatatype.t = "string" -> RDF_LANG_STRING
                    [] languageOrDatatype.t = "object" -> languageOrDatatype.s
                    [] OTHER -> XSD_STRING]

\* Literal.toRDF passing  this.dataType || this.language
Literal_toRDF_datatypeFirst(t) ==
    LET str == IF ToBoolean(t.strValue) THEN Return(t.strValue) ELSE toString(t.typedValue)
    IN  IF str.err # "none"
        THEN str
        ELSE Return(RDFDM_literal(str.ret, JSOr(t.dataType, t.language)))

\* Literal.toRDF
Literal_toRDF(t) ==
    LET str == IF ToBoolean(t.strValue) THEN Return(t.strValue) ELSE toString(t.typedValue)
    IN  IF str.err # "none"
        THEN str
        ELSE Return(RDFDM_literal(str.ret, JSOr(t.language, t.dataType)))

(***************************************************************************)
(* Operators                                                               *)
(***************************************************************************)
MaxArity == 2
MaxArgs == 2

\* new Variable(name)
Variable(name) == [expressionType |-> "variable", name |-> name]

\* an evaluated term that is not a Literal: it has a termType and no category
VariableTerm ==
    [expressionType |-> "term", termType |-> "variable", class |-> "Term",
     category |-> JSUndefined, typedValue |-> JSUndefined, strValue |-> JSUndefined,
     dataType |-> JSUndefined, language |-> JSUndefined]

JSFunction(name) == [t |-> "function", n |-> 0, s |-> name, b |-> FALSE]

\* an immutable.js Map from List<ArgumentType> to SimpleEvaluator
JSMap(m) == [t |-> "object", n |-> 0, s |-> "", b |-> FALSE, map |-> m]

\* Map.get(key): keys are compared by value
MapGet(m, key) == IF key \in DOMAIN m.map THEN JSFunction(m.map[key]) ELSE JSUndefined

\* The computations an operator is given (SimpleEvaluator): "first" returns
\* its first argument, "count" a numeric literal holding the argument count.
Invoke(f, a) ==
    [err |-> "none", msg |-> "", calls |-> 1,
     ret |-> IF f.s = "first"
             THEN IF Len(a) > 0 THEN a[1] ELSE JSUndefined
             ELSE Literal("NumericLiteral", JSNumber(Len(a)), JSUndefined,
                          JSObject(XSD_INTEGER), JSUndefined).ret]

\* args.map((a: any) => a.category || a.termType)
argTypes(a) == [i \in 1..Len(a) |-> JSOr(a[i].category, JSString(a[i].termType)).s]

\* SimpleOperator's constructor without its arity check
SimpleOperator_noArityCheck(operator, arity, exprs, types, _apply) ==
    Return([expressionType |-> "operator", operatorClass |-> "simple",
            operator |-> operator, arity |-> arity, args |-> exprs,
            types |-> types, _apply |-> _apply])

\* new SimpleOperator(operator, arity, args, types, _apply)
SimpleOperator(operator, arity, exprs, types, _apply) ==
    IF Len(exprs) # arity
    THEN Throw("InvalidArity", operator)
    ELSE Return([expressionType |-> "operator", operatorClass |-> "simple",
                 operator |-> operator, arity |-> arity, args |-> exprs,
                 types |-> types, _apply |-> _apply])

\* _isValidTypes comparing the number of arguments only
_isValidTypes_lengthOnly(o, a) == Len(o.types) = Len(a)

\* SimpleOperator._isValidTypes
_isValidTypes(o, a) == o.types = argTypes(a)

\* SimpleOperator.apply
SimpleOperator_apply(o, a) ==
    IF ~_isValidTypes(o, a)
    THEN Throw("InvalidArgumentTypes", o.operator)
    ELSE Invoke(o._apply, a)

\* new OverloadedOperator(operator, arity, args, overloadMap): the parameter
\* property overloadMap is set, the private field _overloadMap is declared
\* and never assigned
OverloadedOperator(operator, arity, exprs, overloadMap) ==
    IF Len(exprs) # arity
    THEN Throw("InvalidArity", operator)
    ELSE Return([expressionType |-> "operator", operatorClass |-> "overloaded",
                 operator |-> operator, arity |-> arity, args |-> exprs,
                 overloadMap |-> overloadMap, _overloadMap |-> JSUndefined])

\* OverloadedOperator._monomorph
_monomorph(o, a) ==
    IF o._overloadMap.t = "undefined"
    THEN UndefinedDeref      \* this._overloadMap.get
    ELSE Return(MapGet(o._overloadMap, argTypes(a)))

\* OverloadedOperator.apply
OverloadedOperator_apply(o, a) ==
    LET func == _monomorph(o, a)
    IN  IF func.err # "none" THEN func
        ELSE IF ~ToBoolean(func.ret)
        THEN Throw("InvalidArgumentTypes", o.operator)
        ELSE Invoke(func.ret, a)

(***************************************************************************)
(* Inputs of the operators                                                 *)
(***************************************************************************)
OperatorNames == {"+", "BNODE"}
Computations == {JSFunction("first"), JSFunction("count")}

\* argument expressions: n variables
ArgExprs(n) == [i \in 1..n |-> Variable("x")]

\* declared signatures (ArgumentType[])
Signatures ==
    {<<>>, <<"integer">>, <<"untyped">>, <<"variable">>,
     <<"integer", "integer">>, <<"integer", "string">>}

\* overload maps
OverloadMaps ==
    {JSMap(<<>>),
     JSMap((<<"integer", "integer">> :> "count") @@ (<<"string">> :> "first")),
     JSMap((<<>> :> "count") @@ (<<"untyped">> :> "first") @@ (<<"variable">> :> "first"))}

\* evaluated terms handed to an operator
ArgTerms ==
    {Literal("NumericLiteral", JSNumber(1), JSString("1"), JSObject(XSD_INTEGER), JSUndefined).ret,
     Literal("StringLiteral", JSString("abc"), JSString("abc"), JSObject(XSD_STRING), JSUndefined).ret,
     NonLexicalLiteral(JSUndefined, JSString("abc"), JSObject(XSD_INTEGER), JSUndefined).ret,
     VariableTerm}

(***************************************************************************)
(* Inputs of the literals                                                  *)
(***************************************************************************)
\* the typed values a class is instantiated with (Literal<T>)
TypedValues(class) ==
    CASE class = "NumericLiteral" -> {JSNumber(0), JSNumber(1), JSNumber(-1), JSNaN}
      [] class = "BooleanLiteral" -> {JSBoolean(TRUE), JSBoolean(FALSE)}
      [] class = "DateTimeLiteral" -> {JSObject("Sat Jan 01 2000")}
      [] class = "PlainLiteral" -> {JSString(""), JSString("abc")}
      [] class = "StringLiteral" -> {JSString(""), JSString("abc")}
      [] class = "NonLexicalLiteral" -> {JSUndefined, JSNumber(1)}
      [] OTHER -> {JSNumber(1)}

StrValues == {JSUndefined, JSString(""), JSString("abc")}
DataTypes ==
    {JSUndefined, JSObject(XSD_INTEGER), JSObject(XSD_STRING), JSObject(XSD_DATE_TIME),
     JSObject(RDF_LANG_STRING)}
Languages == {JSUndefined, JSString(""), JSString("en")}

(***************************************************************************)
(* Literals: construction, coerceEBV, toRDF                                *)
(***************************************************************************)
Call(name, input, outcome) ==
    [op |-> name, input |-> input, err |-> outcome.err, msg |-> outcome.msg,
     ret |-> outcome.ret, calls |-> outcome.calls]

Init ==
    /\ op = NoObject
    /\ args = <<>>
    /\ term = NoObject
    /\ last = Call("init", <<>>, Return(JSUndefined))

ConstructLiteral ==
    \E class \in LiteralClasses, strValue \in StrValues, dataType \in DataTypes,
       language \in Languages :
      \E typedValue \in TypedValues(class) :
        LET r == NewLiteral(class, typedValue, strValue, dataType, language)
        IN  /\ term' = IF r.err = "none" THEN r.ret ELSE term
            /\ last' = Call("new Literal",
                        [class |-> class, typedValue |-> typedValue, dataType |-> dataType], r)
            /\ UNCHANGED <<op, args>>

CoerceEBV(t) ==
    /\ last' = Call("coerceEBV", <<>>, coerceEBV(t))
    /\ UNCHANGED <<op, args, term>>

ToRDF(t) ==
    /\ last' = Call("toRDF", <<>>, Literal_toRDF(t))
    /\ UNCHANGED <<op, args, term>>

LiteralCoerceEBV == term # NoObject /\ CoerceEBV(term)

LiteralToRDF == term # NoObject /\ ToRDF(term)

NextLiteral ==
    \/ ConstructLiteral
    \/ LiteralCoerceEBV
    \/ LiteralToRDF

SpecLiteral == Init /\ [][NextLiteral]_vars

(***************************************************************************)
(* Operators: construction, evaluation of arguments, apply                 *)
(***************************************************************************)
\* (the model follows one operator object: it is constructed once, at query
\* compilation; a construction that throws leaves no object behind)
ConstructSimpleOperator ==
    /\ op = NoObject
    /\ \E operator \in OperatorNames, arity \in 0..MaxArity, n \in 0..MaxArity,
       types \in Signatures, _apply \in Computations :
        LET r == SimpleOperator(operator, arity, ArgExprs(n), types, _apply)
        IN  /\ op' = IF r.err = "none" THEN r.ret ELSE op
            /\ last' = Call("new SimpleOperator",
                        [operator |-> operator, arity |-> arity, nargs |-> n], r)
            /\ UNCHANGED <<args, term>>

ConstructOverloadedOperator ==
    /\ op = NoObject
    /\ \E operator \in OperatorNames, arity \in 0..MaxArity, n \in 0..MaxArity,
       overloadMap \in OverloadMaps :
        LET r == OverloadedOperator(operator, arity, ArgExprs(n), overloadMap)
        IN  /\ op' = IF r.err = "none" THEN r.ret ELSE op
            /\ last' = Call("new OverloadedOperator",
                        [operator |-> operator, arity |-> arity, nargs |-> n], r)
            /\ UNCHANGED <<args, term>>

\* one more argument has been evaluated to a term
EvaluateArgument ==
    /\ Len(args) < MaxArgs
    /\ \E t \in ArgTerms :
        /\ args' = Append(args, t)
        /\ last' = Call("evaluate", <<>>, Return(t))
        /\ UNCHANGED <<op, term>>

\* SimpleOperator.apply consuming its argument array (args.shift())
ApplySimple_shiftsArgs ==
    /\ op # NoObject
    /\ op.operatorClass = "simple"
    /\ last' = Call("SimpleOperator.apply", <<>>, SimpleOperator_apply(op, args))
    /\ args' = IF args = <<>> THEN args ELSE Tail(args)
    /\ UNCHANGED <<op, term>>

ApplySimple ==
    /\ op # NoObject
    /\ op.operatorClass = "simple"
    /\ last' = Call("SimpleOperator.apply", <<>>, SimpleOperator_apply(op, args))
    /\ UNCHANGED <<op, args, term>>

ApplyOverloaded ==
    /\ op # NoObject
    /\ op.operatorClass = "overloaded"
    /\ last' = Call("OverloadedOperator.apply", <<>>, OverloadedOperator_apply(op, args))
    /\ UNCHANGED <<op, args, term>>

ArgumentCoerceEBV ==
    \E i \in 1..Len(args) : args[i].termType = "literal" /\ CoerceEBV(args[i])

ArgumentToRDF ==
    \E i \in 1..Len(args) : args[i].termType = "literal" /\ ToRDF(args[i])

Next ==
    \/ ConstructSimpleOperator
    \/ ConstructOverloadedOperator
    \/ EvaluateArgument
    \/ ApplySimple
    \/ ApplyOverloaded
    \/ ArgumentCoerceEBV
    \/ ArgumentToRDF

Spec == Init /\ [][Next]_vars

(***************************************************************************)
(* Properties                                                              *)
(***************************************************************************)
\* the category of an evaluated term: its category, or its termType when it
\* has none
Category(t) == IF t.category.t = "undefined" THEN t.termType ELSE t.category.s
Categories(a) == [i \in 1..Len(a) |-> Category(a[i])]

Returned == last.err = "none"

\* C1: OverloadedOperator.apply looks the tuple of the arguments' categories
\* up in the overload map given at construction; when the tuple is a key it
\* invokes the computation mapped to it on the arguments and returns its
\* result, and when it is not a key it fails with InvalidArgumentTypes.
C1_OverloadedApplyDispatches ==
    last.op = "OverloadedOperator.apply" =>
        IF Categories(args) \in DOMAIN op.overloadMap.map
        THEN /\ Returned
             /\ last.calls = 1
             /\ last.ret = Invoke(JSFunction(op.overloadMap.map[Categories(args)]), args).ret
        ELSE /\ last.err = "InvalidArgumentTypes"
             /\ last.calls = 0

\* C2: SimpleOperator.apply fails with InvalidArgumentTypes, invoking nothing,
\* exactly when the arguments' categories differ from the declared types;
\* otherwise it invokes the supplied computation once on the arguments and
\* returns its result.
C2_SimpleApplyChecksTypes ==
    last.op = "SimpleOperator.apply" =>
        IF Categories(args) # op.types
        THEN /\ last.err = "InvalidArgumentTypes"
             /\ last.calls = 0
        ELSE /\ Returned
             /\ last.calls = 1
             /\ last.ret = Invoke(op._apply, args).ret

C2_Witness ==
    /\ last.op = "SimpleOperator.apply"
    /\ Returned
    /\ Len(args) = 2
    /\ last.ret = args[1]

\* C3: constructing a SimpleOperator or an OverloadedOperator with a number of
\* argument expressions different from the arity throws InvalidArity, yields
\* no operator and invokes no computation; with the number equal to the arity
\* the operator is constructed.
C3_ArityCheckedAtConstruction ==
    last.op \in {"new SimpleOperator", "new OverloadedOperator"} =>
        IF last.input.nargs # last.input.arity
        THEN /\ last.err = "InvalidArity"
             /\ last.calls = 0
             /\ op = NoObject
        ELSE /\ Returned
             /\ last.calls = 0
             /\ op = last.ret
             /\ op.arity = last.input.arity
             /\ Len(op.args) = last.input.nargs

C3_Witness ==
    /\ last.op = "new SimpleOperator"
    /\ last.input = [operator |-> "BNODE", arity |-> 0, nargs |-> 1]
    /\ last.err = "InvalidArity"

\* C4: coerceEBV of a NumericLiteral is false for 0 and NaN and true for any
\* other number; of a BooleanLiteral it is the typed value; of a PlainLiteral
\* or StringLiteral it is true exactly when the lexical string is non-empty
\* and false when the string is empty.
C4_EffectiveBooleanValue ==
    last.op = "coerceEBV" =>
        /\ term.class = "NumericLiteral" =>
              /\ Returned
              /\ last.ret = JSBoolean(term.typedValue \notin {JSNumber(0), JSNaN})
        /\ term.class = "BooleanLiteral" =>
              /\ Returned
              /\ last.ret = term.typedValue
        /\ term.class \in {"PlainLiteral", "StringLiteral"} =>
              /\ (Returned /\ last.ret = JSBoolean(TRUE))
                    <=> (term.strValue.t = "string" /\ term.strValue.s # "")
              /\ term.strValue = JSString("") => (Returned /\ last.ret = JSBoolean(FALSE))

C4_Witness ==
    /\ last.op = "coerceEBV"
    /\ term.class = "NumericLiteral"
    /\ term.typedValue = JSNaN
    /\ last.ret = JSBoolean(FALSE)

\* C5: coerceEBV on a term whose category is not numeric, boolean or string
\* fails with NotCoercibleError, a kind of its own, and returns no boolean.
NumericCategories == {"integer", "decimal", "float", "double"}

C5_NotCoercibleError ==
    (/\ last.op = "coerceEBV"
     /\ Category(term) \notin NumericCategories \cup {"boolean", "string"})
        => last.err = "NotCoercibleError"

\* C6: constructing a Literal always succeeds, whichever of the lexical
\* string, datatype and language are given, and sets the category to
\* categorize(datatype).
C6_LiteralConstructionSucceeds ==
    last.op = "new Literal" =>
        /\ Returned
        /\ term = last.ret
        /\ last.input.class # "NonLexicalLiteral" =>
              term.category = JSString(categorize(last.input.dataType.s))

\* C7: a NonLexicalLiteral has category 'untyped' and no typed value, whatever
\* value and datatype it was constructed with.
C7_NonLexicalIsUntyped ==
    /\ term # NoObject /\ term.class = "NonLexicalLiteral" =>
          /\ term.category = JSString("untyped")
          /\ term.typedValue = JSUndefined
    /\ (last.op = "new Literal" /\ last.input.class = "NonLexicalLiteral" /\ Returned) =>
          /\ last.ret.category = JSString("untyped")
          /\ last.ret.typedValue = JSUndefined

C7_Witness ==
    /\ last.op = "new Literal"
    /\ Returned
    /\ last.input = [class |-> "NonLexicalLiteral", typedValue |-> JSNumber(1),
                     dataType |-> JSObject(XSD_INTEGER)]
    /\ term = last.ret
    /\ term.strValue = JSString("abc")

\* C8: toRDF renders the original lexical string whenever one is present, the
\* empty string included, and the typed value's string form only when no
\* lexical string was given.
C8_ToRDFRendersLexical ==
    last.op = "toRDF" =>
        IF term.strValue.t = "string"
        THEN Returned /\ last.ret.value = term.strValue.s
        ELSE Returned => last.ret.value = toString(term.typedValue).ret.s

\* C9: toRDF passes both the language tag and the datatype given at
\* construction to the produced term, in every combination of the two.
C9_ToRDFPassesLanguageAndDatatype ==
    (last.op = "toRDF" /\ Returned) =>
        /\ last.ret.datatype = term.dataType.s
        /\ last.ret.language = term.language.s

\* C9 as amended: the produced term carries the language tag when a non-empty
\* one was given, and then the rdf:langString datatype whatever datatype was
\* given; otherwise it carries the given datatype and an empty language tag.
C9_ToRDFPassesLanguageOrDatatype ==
    (last.op = "toRDF" /\ Returned) =>
        IF term.language.t = "string" /\ term.language.s # ""
        THEN /\ last.ret.language = term.language.s
             /\ last.ret.datatype = RDF_LANG_STRING
        ELSE /\ last.ret.language = ""
             /\ last.ret.datatype = term.dataType.s

C9_Witness ==
    /\ last.op = "toRDF"
    /\ Returned
    /\ term.language = JSString("en")
    /\ term.dataType = JSObject(XSD_INTEGER)
    /\ last.ret.datatype = RDF_LANG_STRING

\* C10: apply, coerceEBV and toRDF, returning or throwing, change no field of
\* the operator or of the terms, and an operator once constructed keeps its
\* fields.
Methods == {"SimpleOperator.apply", "OverloadedOperator.apply", "coerceEBV", "toRDF"}

C10_NoMutationAfterConstruction ==
    [][/\ last'.op \in Methods => (op' = op /\ args' = args /\ term' = term)
       /\ op # NoObject => op' = op
       /\ \A i \in 1..Len(args) : i <= Len(args') /\ args'[i] = args[i]]_vars

C10_Witness ==
    /\ last.op = "OverloadedOperator.apply"
    /\ last.err # "none"
    /\ Len(args) = 2
    /\ args[2].class = "NonLexicalLiteral"

====
